---- MODULE Spec2Model ----
(***************************************************************************)
(* Model of the post board of src/app.py: one Post table, an upload        *)
(* folder, a cookie session per browser, and the six routes index, login,  *)
(* logout, add_post, edit_post and delete_post.                            *)
(*                                                                         *)
(* A request is first submitted by a browser (Submit: the request is in    *)
(* flight, req is set and resp is Pending) and then handled to completion  *)
(* by exactly one route action, which models the whole handler including   *)
(* the login_required wrapper, the file operations and the commit or the   *)
(* rollback of the database session, and leaves the response in resp.      *)
(*                                                                         *)
(* src/app.py holds the program text twice (lines 170-339 repeat lines     *)
(* 1-169); the model follows the first copy.  What the libraries do        *)
(* (secure_filename, paginate, the primary key of the database, the        *)
(* rollback after an exception) is modelled by their documented behaviour. *)
(* A failed image.save is taken to write nothing, and the content of a     *)
(* stored file is not followed, only its name.                             *)
(***************************************************************************)
EXTENDS Integers, Sequences, FiniteSets, TLC

(* ------------------------------ bounds ------------------------------- *)
\* ids (and therefore rows) the model follows
MaxId == 2
\* largest page number a browser asks for
MaxPage == 2

(* ------------------------- program constants ------------------------- *)
\* per_page of paginate in index
PER_PAGE == 10

(* ------------------------------ values ------------------------------- *)
\* Python's None: an absent form field, a NULL column, an absent file part
None == "<None>"

Sessions == {"s1", "s2"}

\* the literal the login route compares with
SECRET == "miku"
LoginPasswords == {None, SECRET, "guess"}

\* per-post passwords a form carries
Passwords == {None, "", "p", "q"}
\* those new posts are created with
AddPasswords == {None, "", "p"}

\* hashlib.sha256(password.encode('utf-8')).hexdigest(): the leading hex
\* digits of the real digests; None has no encode and raises
hash_password(password) ==
    CASE password = ""  -> "e3b0c442"
      [] password = "p" -> "148de9c5"
      [] password = "q" -> "8e35c2cd"
      [] OTHER          -> "raise AttributeError"

\* the text part of a form: actor_name, link_url, memo, author
FullText  == [actor_name |-> "Ava", link_url |-> "u",  memo |-> "m",  author |-> "Bob"]
EmptyText == [actor_name |-> "",    link_url |-> None, memo |-> None, author |-> "Bea"]
NoAuthor  == [actor_name |-> "Ava", link_url |-> "u",  memo |-> "m",  author |-> None]
Texts == {FullText, EmptyText, NoAuthor}

\* filename of the uploaded file part
RawNames == {"a.png", "../b.png", ".."}

\* werkzeug's secure_filename: path separators become "_", leading and
\* trailing dots and underscores are stripped
secure_filename(filename) ==
    CASE filename = "a.png"    -> "a.png"
      [] filename = "../b.png" -> "b.png"
      [] filename = ".."       -> ""
      [] OTHER                 -> ""

StoredNames == {secure_filename(n) : n \in RawNames} \ {""}

\* what the operating system does with image.save and os.remove
Fates == {"ok", "fails"}

Pages == 1..MaxPage
Ids == 1..MaxId

VARIABLES
    backend,    \* database behind SQLALCHEMY_DATABASE_URI
    seq,        \* last value of the id sequence (postgresql)
    posts,      \* committed rows of Post: id -> row
    files,      \* names of the files in the upload folder
    logged_in,  \* sessions whose cookie holds 'logged_in'
    req,        \* request in flight, NoReq when none is
    resp,       \* response to the last request, Pending while it is in flight
    assigned    \* history: ids the database has assigned so far

vars == <<backend, seq, posts, files, logged_in, req, resp, assigned>>

(* ---------------------------- requests ------------------------------- *)
\* image: filename of the file part, None without one; save, rm: what the
\* file system does when the handler saves the upload, removes an old file
NoReq ==
    [op |-> "none", method |-> "GET", sess |-> "s1", post_id |-> 0, page |-> 0,
     password |-> None, actor_name |-> None, link_url |-> None, memo |-> None,
     author |-> None, image |-> None, save |-> "ok", rm |-> "ok"]

Request(op, s) == [NoReq EXCEPT !.op = op, !.sess = s]

Form(op, s, p, t, u) ==
    [Request(op, s) EXCEPT !.method = "POST", !.password = p,
        !.actor_name = t.actor_name, !.link_url = t.link_url, !.memo = t.memo,
        !.author = t.author, !.image = u.image, !.save = u.save, !.rm = u.rm]

NoUpload == [image |-> None, save |-> "ok", rm |-> "ok"]

\* no file part, a name that sanitizes to nothing, or a file part whose save
\* (and, in edit_post, whose removal of the old file) goes one way or the other
Uploads(rms) ==
    {NoUpload, [NoUpload EXCEPT !.image = ".."]}
    \cup [image : RawNames \ {".."}, save : Fates, rm : rms]

IndexRequests(S) == {[Request("index", s) EXCEPT !.page = p] : s \in S, p \in Pages}

LoginRequests(S) ==
    {Request("login", s) : s \in S}
    \cup {[Request("login", s) EXCEPT !.method = "POST", !.password = p] :
            s \in S, p \in LoginPasswords}

LogoutRequests(S) == {Request("logout", s) : s \in S}

AddRequests(S, P, T, U) ==
    {Form("add", s, p, t, u) : s \in S, p \in P, t \in T, u \in U}

EditRequests(S, P, T, U) ==
    {[Form("edit", s, p, t, u) EXCEPT !.post_id = i] :
        s \in S, p \in P, t \in T, u \in U, i \in Ids}

DeleteRequests(S, P) ==
    {[Request("delete", s) EXCEPT !.method = "POST", !.password = p,
                                  !.post_id = i, !.rm = f] :
        s \in S, p \in P, i \in Ids, f \in Fates}

\* one browser, every form
BoardRequests ==
    IndexRequests({"s1"}) \cup LoginRequests({"s1"}) \cup LogoutRequests({"s1"})
    \cup AddRequests({"s1"}, AddPasswords, Texts, Uploads({"ok"}))
    \cup EditRequests({"s1"}, Passwords, Texts, Uploads(Fates))
    \cup DeleteRequests({"s1"}, Passwords)

\* the same as a browser form sends it (every field of the form present),
\* with a file system on which no save and no removal fails
NoFaultRequests ==
    {r \in BoardRequests :
        /\ r.save = "ok" /\ r.rm = "ok" /\ r.image # ".."
        /\ r.op \in {"add", "edit"} => r.author # None}

\* two browsers, plain forms
AuthRequests ==
    IndexRequests(Sessions) \cup LoginRequests(Sessions) \cup LogoutRequests(Sessions)
    \cup AddRequests(Sessions, {"p"}, {FullText, EmptyText},
                     {NoUpload, [NoUpload EXCEPT !.image = "a.png"]})
    \cup EditRequests(Sessions, {"p", "q"}, {EmptyText},
                      {NoUpload, [NoUpload EXCEPT !.image = "../b.png"]})
    \cup DeleteRequests(Sessions, {"p", "q"})

(* ---------------------------- responses ------------------------------ *)
\* op: the route that answered; to: target of a redirect or the template
\* rendered; flash: the message flashed; items: ids listed by index.html
Pending == [op |-> "none", status |-> 0, to |-> "", flash |-> "", items |-> <<>>]

Redirect(to, flash) == [Pending EXCEPT !.status = 302, !.to = to, !.flash = flash]
Render(template, flash, items) ==
    [Pending EXCEPT !.status = 200, !.to = template, !.flash = flash, !.items = items]
\* abort(404) of get_or_404 and paginate
NotFound == [Pending EXCEPT !.status = 404]
\* an exception that leaves the handler: the database session is rolled back
ServerError == [Pending EXCEPT !.status = 500]

(* ----------------------------- helpers ------------------------------- *)
\* Python truth of a form value
Truthy(v) == v # None /\ v # ""

Max(S) == CHOOSE x \in S : \A y \in S : y <= x

\* id of an inserted row: sqlite's INTEGER PRIMARY KEY is the largest rowid
\* in the table plus one, postgresql's SERIAL draws from a sequence
NextId ==
    IF backend = "sqlite"
    THEN (IF DOMAIN posts = {} THEN 1 ELSE Max(DOMAIN posts) + 1)
    ELSE seq + 1

\* a bug: one flag for the whole application instead of one per session
login_required_global(s) == logged_in # {}

\* decorated_function of login_required
login_required(s) == s \in logged_in

\* a bug: the password is left out of the check
MissingRequiredNoPassword(r) == ~(Truthy(r.actor_name) /\ Truthy(r.author))

\* not all([actor_name, author, password]) of add_post
MissingRequired(r) ==
    ~(Truthy(r.actor_name) /\ Truthy(r.author) /\ Truthy(r.password))

\* a bug: any password that can be hashed passes
PasswordMatchesAny(post, password) == hash_password(password) # "raise AttributeError"

\* post.password_hash against hash_password of the submitted password
PasswordMatches(post, password) == post.password_hash = hash_password(password)

\* request.files.get('image') is there and has a filename
HasImage(r) == Truthy(r.image)

\* image.save(os.path.join(UPLOAD_FOLDER, name)): joining "" gives the
\* folder itself, which cannot be opened for writing
SaveFails(r) == secure_filename(r.image) = "" \/ r.save # "ok"

Saved(fs, r) == IF SaveFails(r) THEN fs ELSE fs \cup {secure_filename(r.image)}

\* os.remove inside try/except (OSError, FileNotFoundError): pass
\* a bug: os.remove outside try/except
TryRemoveUncaught(fs, name, fate) ==
    [files |-> IF fate = "fails" THEN fs ELSE fs \ {name},
     raised |-> fate = "fails" \/ name \notin fs]

\* the folder afterwards, and whether an exception leaves the handler
TryRemove(fs, name, fate) ==
    [files |-> IF fate = "fails" THEN fs ELSE fs \ {name}, raised |-> FALSE]

\* ids in descending order: order_by(Post.id.desc())
RECURSIVE Descending(_)
Descending(S) ==
    IF S = {} THEN <<>> ELSE <<Max(S)>> \o Descending(S \ {Max(S)})

\* paginate(page=page, per_page=10) with error_out left at True: the items of
\* the page, or "abort" for a page below 1 or an empty page other than the
\* first
paginate(page) ==
    LET all   == Descending(DOMAIN posts)
        first == (page - 1) * PER_PAGE + 1
        last  == IF page * PER_PAGE < Len(all) THEN page * PER_PAGE ELSE Len(all)
        items == IF first > last THEN <<>> ELSE SubSeq(all, first, last)
    IN  IF page < 1 \/ (items = <<>> /\ page # 1) THEN "abort" ELSE items

(* ------------------------------ state -------------------------------- *)
Init ==
    /\ backend \in {"sqlite", "postgresql"}
    /\ seq = 0
    /\ posts = <<>>
    /\ files = {}
    /\ logged_in = {}
    /\ req = NoReq
    /\ resp = [Render("login.html", "", <<>>) EXCEPT !.op = "login"]
    /\ assigned = {}

\* a browser sends a request; one request is handled at a time
Submit(R) ==
    /\ resp # Pending
    /\ req' \in R
    /\ resp' = Pending
    /\ UNCHANGED <<backend, seq, posts, files, logged_in, assigned>>

Handling(op) == resp = Pending /\ req.op = op

Answer(r) == resp' = [r EXCEPT !.op = req.op] /\ req' = NoReq

index ==
    /\ Handling("index")
    /\ UNCHANGED <<backend, seq, posts, files, logged_in, assigned>>
    /\ IF ~login_required(req.sess) THEN Answer(Redirect("login", ""))
       ELSE IF paginate(req.page) = "abort" THEN Answer(NotFound)
       ELSE Answer(Render("index.html", "", paginate(req.page)))

login ==
    /\ Handling("login")
    /\ UNCHANGED <<backend, seq, posts, files, assigned>>
    /\ IF req.method = "POST" /\ req.password = SECRET
       THEN /\ logged_in' = logged_in \cup {req.sess}
            /\ Answer(Redirect("index", ""))
       ELSE /\ UNCHANGED logged_in
            /\ Answer(Render("login.html",
                             IF req.method = "POST" THEN "wrong login password" ELSE "",
                             <<>>))

logout ==
    /\ Handling("logout")
    /\ logged_in' = logged_in \ {req.sess}
    /\ Answer(Redirect("login", ""))
    /\ UNCHANGED <<backend, seq, posts, files, assigned>>

\* the row add_post inserts
NewPost(r) ==
    [actor_name     |-> r.actor_name,
     link_url       |-> r.link_url,
     image_filename |-> IF HasImage(r) THEN secure_filename(r.image) ELSE None,
     memo           |-> r.memo,
     author         |-> r.author,
     password_hash  |-> hash_password(r.password)]

add_post ==
    /\ Handling("add")
    /\ UNCHANGED <<backend, logged_in>>
    /\ IF ~login_required(req.sess)
       THEN /\ Answer(Redirect("login", ""))
            /\ UNCHANGED <<seq, posts, files, assigned>>
       ELSE IF MissingRequired(req)
       THEN /\ Answer(Redirect("index", "required fields"))
            /\ UNCHANGED <<seq, posts, files, assigned>>
       ELSE IF HasImage(req) /\ SaveFails(req)
       THEN /\ Answer(ServerError)
            /\ UNCHANGED <<seq, posts, files, assigned>>
       ELSE /\ NextId <= MaxId
            /\ files' = IF HasImage(req) THEN Saved(files, req) ELSE files
            /\ posts' = [i \in DOMAIN posts \cup {NextId} |->
                           IF i = NextId THEN NewPost(req) ELSE posts[i]]
            /\ seq' = IF backend = "sqlite" THEN seq ELSE NextId
            /\ assigned' = assigned \cup {NextId}
            /\ Answer(Redirect("index", "created"))

\* a bug: the edit also stores the digest of a new-password field the form
\* does not have
EditedResetsPassword(post, r) ==
    [post EXCEPT !.actor_name = r.actor_name,
                 !.link_url = r.link_url,
                 !.memo = r.memo,
                 !.author = r.author,
                 !.password_hash = hash_password(""),
                 !.image_filename = IF HasImage(r) THEN secure_filename(r.image) ELSE @]

\* the row as edit_post leaves it in the database session before the commit
Edited(post, r) ==
    [post EXCEPT !.actor_name = r.actor_name,
                 !.link_url = r.link_url,
                 !.memo = r.memo,
                 !.author = r.author,
                 !.image_filename = IF HasImage(r) THEN secure_filename(r.image) ELSE @]

\* nullable=False of actor_name and author makes the UPDATE fail
CommitFails(row) == row.actor_name = None \/ row.author = None

\* os.remove of the image a post has, when it has one
RemoveImage(fs, post, fate) ==
    IF Truthy(post.image_filename)
    THEN TryRemove(fs, post.image_filename, fate)
    ELSE [files |-> fs, raised |-> FALSE]

edit_post ==
    /\ Handling("edit")
    /\ UNCHANGED <<backend, seq, logged_in, assigned>>
    /\ IF ~login_required(req.sess)
       THEN Answer(Redirect("login", "")) /\ UNCHANGED <<posts, files>>
       ELSE IF req.post_id \notin DOMAIN posts
       THEN Answer(NotFound) /\ UNCHANGED <<posts, files>>
       ELSE IF req.password = None
       THEN Answer(ServerError) /\ UNCHANGED <<posts, files>>
       ELSE IF ~PasswordMatches(posts[req.post_id], req.password)
       THEN Answer(Redirect("index", "password mismatch")) /\ UNCHANGED <<posts, files>>
       ELSE LET post == posts[req.post_id]
                old  == RemoveImage(files, post, req.rm)
            IN  IF ~HasImage(req)
                THEN /\ UNCHANGED files
                     /\ IF CommitFails(Edited(post, req))
                        THEN Answer(ServerError) /\ UNCHANGED posts
                        ELSE /\ posts' = [posts EXCEPT ![req.post_id] = Edited(post, req)]
                             /\ Answer(Redirect("index", "updated"))
                ELSE IF old.raised
                THEN /\ files' = old.files
                     /\ Answer(ServerError) /\ UNCHANGED posts
                ELSE /\ files' = Saved(old.files, req)
                     /\ IF SaveFails(req) \/ CommitFails(Edited(post, req))
                        THEN Answer(ServerError) /\ UNCHANGED posts
                        ELSE /\ posts' = [posts EXCEPT ![req.post_id] = Edited(post, req)]
                             /\ Answer(Redirect("index", "updated"))

delete_post ==
    /\ Handling("delete")
    /\ UNCHANGED <<backend, seq, logged_in, assigned>>
    /\ IF ~login_required(req.sess)
       THEN Answer(Redirect("login", "")) /\ UNCHANGED <<posts, files>>
       ELSE IF req.post_id \notin DOMAIN posts
       THEN Answer(NotFound) /\ UNCHANGED <<posts, files>>
       ELSE IF req.password = None
       THEN Answer(ServerError) /\ UNCHANGED <<posts, files>>
       ELSE IF PasswordMatches(posts[req.post_id], req.password)
       THEN LET old == RemoveImage(files, posts[req.post_id], req.rm) IN
            /\ files' = old.files
            /\ IF old.raised
               THEN Answer(ServerError) /\ UNCHANGED posts
               ELSE /\ posts' = [i \in DOMAIN posts \ {req.post_id} |-> posts[i]]
                    /\ Answer(Redirect("index", "deleted"))
       ELSE Answer(Redirect("index", "password mismatch")) /\ UNCHANGED <<posts, files>>

Handle ==
    \/ index
    \/ login
    \/ logout
    \/ add_post
    \/ edit_post
    \/ delete_post

Next == Submit(BoardRequests) \/ Handle

Spec == Init /\ [][Next]_vars

NextAuth == Submit(AuthRequests) \/ Handle

SpecAuth == Init /\ [][NextAuth]_vars

NextNoFault == Submit(NoFaultRequests) \/ Handle

SpecNoFault == Init /\ [][NextNoFault]_vars

(* ------------------------------ claims ------------------------------- *)
\* the request in flight is for route op and comes from a logged-in session
Authenticated(op) == resp = Pending /\ req.op = op /\ req.sess \in logged_in

\* the request in flight names a stored post and carries a password with a digest
OnPost == req.post_id \in DOMAIN posts /\ req.password # None

\* C1: an authenticated edit_post or delete_post whose password hashes to
\* something else than the stored password_hash changes no row, no field
\* of any row and no stored file.
C1_WrongPasswordChangesNothing ==
    [][ ( /\ Authenticated("edit") \/ Authenticated("delete")
          /\ OnPost
          /\ hash_password(req.password) # posts[req.post_id].password_hash )
        => (posts' = posts /\ files' = files) ]_vars

\* a wrong password was answered while a post with a stored image exists
C1_Witness ==
    /\ resp.op \in {"edit", "delete"}
    /\ resp.flash = "password mismatch"
    /\ \E i \in DOMAIN posts : posts[i].image_filename \in files

\* C2: a guarded request of a session that is not logged in is redirected
\* to login and changes no post, file or session; a session becomes logged
\* in only by its own POST of the right secret to login, and its logout
\* ends that.
C2_SessionGuard ==
    [][ /\ ( /\ resp = Pending
             /\ req.op \in {"index", "add", "edit", "delete"}
             /\ req.sess \notin logged_in )
           => /\ resp' = [Redirect("login", "") EXCEPT !.op = req.op]
              /\ posts' = posts /\ files' = files /\ logged_in' = logged_in
        /\ \A s \in logged_in' \ logged_in :
              /\ req.op = "login" /\ req.sess = s
              /\ req.method = "POST" /\ req.password = SECRET
        /\ (resp = Pending /\ req.op = "logout") => req.sess \notin logged_in'
      ]_vars

\* an add_post was sent to login although another session is logged in and
\* the board has a post
C2_Witness ==
    /\ resp.op = "add" /\ resp.status = 302 /\ resp.to = "login"
    /\ logged_in # {} /\ logged_in # Sessions
    /\ posts # <<>>

\* C3: the id of a new post is greater than every id assigned before.
C3_IdsIncrease ==
    [][ \A i \in DOMAIN posts' \ DOMAIN posts : \A j \in assigned : i > j ]_vars

\* C4: an authenticated add_post with actor_name, author or password empty
\* or absent inserts no row and saves no file, image or not, and redirects
\* to the list with the validation message.
C4_MissingFieldNoWrite ==
    [][ ( /\ Authenticated("add")
          /\ \/ req.actor_name \in {None, ""}
             \/ req.author \in {None, ""}
             \/ req.password \in {None, ""} )
        => /\ posts' = posts /\ files' = files
           /\ resp' = [Redirect("index", "required fields") EXCEPT !.op = "add"] ]_vars

\* the validation message was given
C4_Witness == resp.op = "add" /\ resp.flash = "required fields" /\ resp.to = "index"

\* C5: edit_post leaves the id and the password_hash of every post as they
\* were.
C5_EditKeepsPasswordHash ==
    [][ (resp = Pending /\ req.op = "edit")
        => /\ DOMAIN posts' = DOMAIN posts
           /\ \A i \in DOMAIN posts : posts'[i].password_hash = posts[i].password_hash ]_vars

\* an edit went through and the edited post still has the digest of "p"
C5_Witness ==
    /\ resp.op = "edit" /\ resp.flash = "updated"
    /\ \E i \in DOMAIN posts :
          posts[i].actor_name = "" /\ posts[i].password_hash = hash_password("p")

\* C6: an authenticated delete_post with the right password removes the row
\* and answers with the redirect of a deletion, whatever os.remove does.
C6_DeleteRemovesRow ==
    [][ ( /\ Authenticated("delete")
          /\ OnPost
          /\ hash_password(req.password) = posts[req.post_id].password_hash )
        => /\ req.post_id \notin DOMAIN posts'
           /\ resp' = [Redirect("index", "deleted") EXCEPT !.op = "delete"] ]_vars

\* a post was deleted and a file nobody references stayed behind
C6_Witness ==
    /\ resp.op = "delete" /\ resp.flash = "deleted"
    /\ posts = <<>> /\ files # {}

\* C7: when the save of the upload fails in add_post or edit_post, the rows
\* are as before and every post that had its image still has it.
C7_SaveFailureAborts ==
    [][ ( /\ Authenticated("add") \/ Authenticated("edit")
          /\ req.image \notin {None, ""}
          /\ req.save = "fails" \/ secure_filename(req.image) = ""
          /\ resp'.status = 500 )
        => /\ posts' = posts
           /\ \A i \in DOMAIN posts :
                 posts[i].image_filename \in files => posts[i].image_filename \in files' ]_vars

\* the last page that has posts
LastPage == IF Cardinality(DOMAIN posts) = 0 THEN 1
            ELSE (Cardinality(DOMAIN posts) + PER_PAGE - 1) \div PER_PAGE

\* C8: index answers every page p >= 1 with a list, an empty one beyond the
\* last page.
C8_ListNeverFails ==
    [][ (Authenticated("index") /\ req.page >= 1)
        => /\ resp'.status = 200
           /\ req.page > LastPage => resp'.items = <<>> ]_vars

\* C9: every stored post has a non-empty actor_name and a non-empty author.
C9_RequiredFieldsStored ==
    \A i \in DOMAIN posts :
        /\ posts[i].actor_name \notin {None, ""}
        /\ posts[i].author \notin {None, ""}

\* C10: when no file operation fails, the image of every stored post that
\* has one is in the upload folder.
C10_ImagesExist ==
    \A i \in DOMAIN posts :
        posts[i].image_filename \notin {None, ""} => posts[i].image_filename \in files

====
